---- MODULE Spec2Model ----
(***************************************************************************)
(* The data catalog and query middleware of the dashboard                  *)
(* (src/src/backend/sql): the catalog relation administrative.table_catalog *)
(* the materialized tables of the datasets schema, ingestion, usage        *)
(* logging, and the connection map.                                        *)
(*                                                                         *)
(* Each handler is one action. A statement of the embedded store either    *)
(* commits or raises; what it raises is an input of the action.            *)
(***************************************************************************)
EXTENDS Integers, Sequences, FiniteSets, TLC

VARIABLES
    catalog,                    \* rows of administrative.table_catalog
    datasets,                   \* datasets schema: table name -> contents
    config,                     \* config.hjson, PostgreSQL.clusters: cluster -> databases
    CLUSTERS,                   \* POSTGRES.CLUSTERS, read by reload_config
    map_tables_to_connections,  \* module global of base.py
    now,                        \* the store's clock, NOW()
    last,                       \* the last call and what it returned or raised
    calls                       \* each worker process's call in flight

vars == <<catalog, datasets, config, CLUSTERS, map_tables_to_connections, now, last, calls>>

----------------------------------------------------------------------------
(* Bounds *)

\* every call reads the clock; no call starts once the clock shows MaxNow
MaxNow == 3
\* items of a statement in the reference-detection specification
MaxTokens == 2
\* worker processes of the concurrent specification
NumWorkers == 3

----------------------------------------------------------------------------
(* Values *)

NULL == "NULL"

\* iris and economics are ingested by DUCKDB.init; t2 and t3 are user names
Names == {"iris", "economics", "t2", "t3"}

\* the characters of each name
Chars ==
    [iris |-> <<"i", "r", "i", "s">>,
     economics |-> <<"e", "c", "o", "n", "o", "m", "i", "c", "s">>,
     t2 |-> <<"t", "2">>,
     t3 |-> <<"t", "3">>]

SYSTEM_TABLES == {"current_notebook_id", "has_onboarded", "notebooks", "notebook_versions"}

TableTypes == {"system", "user-temporary", "user-persistent"}

ExternalTypes == {"postgres"}

Columns ==
    {"table_name", "table_description", "table_type", "owned_by", "created", "updates",
     "updated", "hits", "last_hit", "is_pseudo_table", "external_type", "etc"}

\* the JSON object '{}'
EmptyEtc == [k \in {} |-> NULL]

\* column defaults of CREATE TABLE administrative.table_catalog at time t
ColumnDefault(c, t) ==
    CASE c = "table_description" -> NULL
      [] c = "table_type" -> "system"
      [] c = "owned_by" -> "unknown"
      [] c = "created" -> t
      [] c = "updates" -> 0
      [] c = "updated" -> t
      [] c = "hits" -> 0
      [] c = "last_hit" -> t
      [] c = "is_pseudo_table" -> FALSE
      [] c = "external_type" -> NULL
      [] c = "etc" -> EmptyEtc
      [] OTHER -> NULL

\* the row INSERT builds from the supplied columns, defaults elsewhere
NewRow(params, t) ==
    [c \in Columns |-> IF c \in DOMAIN params THEN params[c] ELSE ColumnDefault(c, t)]

\* NOT NULL and CHECK constraints of the relation
ConstraintsHold(row) ==
    /\ row.table_name # NULL
    /\ row.table_type \in TableTypes
    /\ row.owned_by # NULL
    /\ row.external_type \in ExternalTypes \cup {NULL}

RowsOf(cat, name) == {r \in cat : r.table_name = name}

HasRow(cat, name) == RowsOf(cat, name) # {}

RowOf(cat, name) == CHOOSE r \in RowsOf(cat, name) : TRUE

\* drop the None-valued entries: {k:v for k,v in zip(...) if v is not None}
Supplied(params) ==
    LET keep == {k \in DOMAIN params : params[k] # NULL}
    IN [k \in keep |-> params[k]]

----------------------------------------------------------------------------
(* Statements on the catalog. Each returns [cat, exc]: the relation after   *)
(* the statement and the exception class it raises, NULL when it commits.   *)
(* fault is the error the store raises instead of committing, NULL if none. *)

\* the PRIMARY KEY of table_name: a second row of the same name is rejected
PrimaryKeyViolated(cat, row) == HasRow(cat, row.table_name)

\* INSERT INTO administrative.table_catalog (...) VALUES (...)
Insert(cat, params, t, fault) ==
    LET row == NewRow(params, t)
    IN IF fault # NULL THEN [cat |-> cat, exc |-> fault]
       ELSE IF ~ConstraintsHold(row) \/ PrimaryKeyViolated(cat, row)
            THEN [cat |-> cat, exc |-> "ConstraintException"]
            ELSE [cat |-> cat \cup {row}, exc |-> NULL]

\* INSERT ... ON CONFLICT (table_name) DO UPDATE SET <sets>: rows of the
\* proposed names that exist are rewritten by update, the others inserted
Upsert(cat, proposed, update, fault) ==
    LET names == {r.table_name : r \in proposed}
        fresh == {r \in proposed : ~HasRow(cat, r.table_name)}
        kept == {r \in cat : r.table_name \notin names}
        rewritten == {update[r] : r \in cat \ kept}
    IN IF fault # NULL THEN [cat |-> cat, exc |-> fault]
       ELSE IF \E r \in fresh \cup rewritten : ~ConstraintsHold(r)
            THEN [cat |-> cat, exc |-> "ConstraintException"]
            ELSE [cat |-> kept \cup rewritten \cup fresh, exc |-> NULL]

----------------------------------------------------------------------------
(* The cluster registry and the etc payload *)

\* config.hjson as shipped: one cluster, c1, serving database d1
Registry0 == [c \in {"c1"} |-> {"d1"}]

EtcRequired == {"cluster", "database", "sql"}

EtcOptional == {"cluster_friendly_name", "post_process"}

\* POSTGRES.ETC_SCHEMA.validate(etc): PseudoIngestRequest of pg.schema.json
EtcSchemaValid(etc) ==
    /\ EtcRequired \subseteq DOMAIN etc
    /\ DOMAIN etc \subseteq EtcRequired \cup EtcOptional

\* the validation that looks the cluster up and not the database
PseudoIngestValidationClusterOnly(external_type, etc, clusters) ==
    IF external_type = "postgres"
    THEN IF ~EtcSchemaValid(etc) THEN "ValidationError"
         ELSE IF etc.cluster \notin DOMAIN clusters THEN "ValueError" ELSE NULL
    ELSE "ValueError"

\* the exception pseudo_ingest's validation raises, NULL when it passes
PseudoIngestValidation(external_type, etc, clusters) ==
    IF external_type = "postgres"
    THEN IF ~EtcSchemaValid(etc) THEN "ValidationError"
         ELSE LET cluster_exists == etc.cluster \in DOMAIN clusters
                  db_exists == cluster_exists /\ etc.database \in clusters[etc.cluster]
              IN IF ~(cluster_exists /\ db_exists) THEN "ValueError" ELSE NULL
    ELSE "ValueError"

----------------------------------------------------------------------------
(* DUCKDB.ingest *)

IngestParams(table_name, args) ==
    Supplied([table_name |-> table_name,
              table_description |-> args.table_description,
              table_type |-> args.table_type,
              owned_by |-> args.owned_by])

\* the update that takes the proposed row's count: updates = EXCLUDED.updates
IngestUpdateExcluded(row, t) == [row EXCEPT !.updates = 1, !.updated = t]

\* ON CONFLICT (table_name) DO UPDATE SET updates = updates + 1, updated = NOW()
IngestUpdate(row, t) == [row EXCEPT !.updates = @ + 1, !.updated = t]

\* the catalog statement of ingest: the upsert when the materialized table
\* was already there, the plain INSERT when it was not
IngestStatement(cat, table_already_exists, table_name, args, t, fault) ==
    LET params == IngestParams(table_name, args)
        proposed == NewRow(params @@ [updates |-> 1, updated |-> t], t)
        update == [r \in cat |-> IngestUpdate(r, t)]
    IN IF table_already_exists
       THEN Upsert(cat, {proposed}, update, fault)
       ELSE Insert(cat, params, t, fault)

\* ingest on a store no other process writes to: the existence check reads
\* the tables of the datasets schema
IngestCatalog(cat, ds, table_name, args, t, fault) ==
    IngestStatement(cat, table_name \in DOMAIN ds, table_name, args, t, fault)

\* CREATE OR REPLACE TABLE datasets.<table_name> AS SELECT * FROM df
Materialize(ds, table_name, df) ==
    [n \in DOMAIN ds \cup {table_name} |-> IF n = table_name THEN df ELSE ds[n]]

----------------------------------------------------------------------------
(* DUCKDB.pseudo_ingest *)

PseudoIngestParams(table_name, args, external_type, etc) ==
    Supplied([table_name |-> table_name,
              table_description |-> args.table_description,
              table_type |-> args.table_type,
              owned_by |-> args.owned_by,
              external_type |-> external_type])
        @@ [is_pseudo_table |-> TRUE, etc |-> etc]

\* DO UPDATE SET <every supplied field but table_name>, updates = updates + 1,
\* updated = NOW()
\* the update that leaves the pseudo-table flag out of the SET clause
PseudoIngestUpdateKeepsFlag(row, params, t) ==
    [c \in Columns |->
        IF c = "updates" THEN row.updates + 1
        ELSE IF c = "updated" THEN t
        ELSE IF c \in DOMAIN params \ {"table_name", "is_pseudo_table"} THEN params[c]
        ELSE row[c]]

\* the update that replaces the row by the proposed one (INSERT OR REPLACE):
\* the counters start over
PseudoIngestUpdateReplaces(row, params, t) == NewRow(params @@ [updates |-> 1, updated |-> t], t)

PseudoIngestUpdate(row, params, t) ==
    [c \in Columns |->
        IF c = "updates" THEN row.updates + 1
        ELSE IF c = "updated" THEN t
        ELSE IF c \in DOMAIN params \ {"table_name"} THEN params[c]
        ELSE row[c]]

\* the catalog statement of pseudo_ingest: the upsert when the existence
\* check found a row, the plain INSERT when it did not
PseudoIngestStatement(cat, table_already_exists, table_name, args, external_type, etc, t, fault) ==
    LET params == PseudoIngestParams(table_name, args, external_type, etc)
        proposed == NewRow(params @@ [updates |-> 1, updated |-> t], t)
        update == [r \in cat |-> PseudoIngestUpdate(r, params, t)]
    IN IF table_already_exists
       THEN Upsert(cat, {proposed}, update, fault)
       ELSE Insert(cat, params, t, fault)

\* pseudo_ingest on a store no other process writes to: the existence check
\* reads the catalog
PseudoIngestCatalog(cat, table_name, args, external_type, etc, t, fault) ==
    PseudoIngestStatement(cat, HasRow(cat, table_name), table_name, args, external_type,
                          etc, t, fault)

\* the connection at the end of pseudo_ingest: the caller's, left open; its
\* own, closed by the finally clause; or none, when validation raised before
\* duckdb.connect was reached
PseudoIngestConnection(validation, supplied_conn) ==
    IF supplied_conn THEN "open" ELSE IF validation # NULL THEN "none" ELSE "closed"

\* the finally clause: conn is still None when validation raised, and a
\* pseudo_ingest that was to open its own connection calls None.close()
PseudoIngestRaises(validation, supplied_conn) ==
    IF validation # NULL /\ ~supplied_conn THEN "AttributeError" ELSE validation

----------------------------------------------------------------------------
(* POSTGRES.init / POSTGRES.ingest_hjson: the dataset definitions of the     *)
(* directory pg_datasets, visited in the order glob yields them              *)

EtcKeys == {"cluster", "cluster_friendly_name", "database", "sql", "post_process"}

\* POSTGRES.HJSON_SCHEMA.validate(definition): UnattendedPseudoIngestRequest
\* of pg.schema.json
HjsonSchemaValid(definition) ==
    /\ {"table_name"} \cup EtcRequired \subseteq DOMAIN definition
    /\ DOMAIN definition \subseteq
            {"table_name", "table_description", "table_type", "owned_by"} \cup EtcKeys

\* definition.get(k)
Get(definition, k) == IF k \in DOMAIN definition THEN definition[k] ELSE NULL

\* the etc ingest_hjson hands on: the etc keys the definition has
HjsonEtc(definition) == [k \in EtcKeys \cap DOMAIN definition |-> definition[k]]

\* ingest_hjson of one file, on the connection of the caller
IngestHjson(cat, definition, clusters, t) ==
    IF ~HjsonSchemaValid(definition) THEN [cat |-> cat, exc |-> "ValidationError"]
    ELSE LET etc == HjsonEtc(definition)
             args == [table_description |-> Get(definition, "table_description"),
                      table_type |-> Get(definition, "table_type"),
                      owned_by |-> Get(definition, "owned_by")]
             validation == PseudoIngestValidation("postgres", etc, clusters)
         IN IF validation # NULL
            THEN [cat |-> cat, exc |-> PseudoIngestRaises(validation, TRUE)]
            ELSE PseudoIngestCatalog(cat, definition.table_name, args, "postgres", etc, t, NULL)

\* the loop of POSTGRES.init: an exception of ingest_hjson leaves the loop
RECURSIVE IngestHjsonFiles(_, _, _, _)
IngestHjsonFiles(cat, files, clusters, t) ==
    IF files = <<>> THEN [cat |-> cat, exc |-> NULL]
    ELSE LET res == IngestHjson(cat, Head(files), clusters, t)
         IN IF res.exc # NULL THEN res
            ELSE IngestHjsonFiles(res.cat, Tail(files), clusters, t)

----------------------------------------------------------------------------
(* DuckDBMonitorMiddleware.log_table_usage / log_table_update *)

\* the update that takes the proposed row's count: hits = EXCLUDED.hits
UsageUpdateExcluded(row, t) == [row EXCEPT !.hits = 1, !.last_hit = t]

UsageUpdate(row, t) == [row EXCEPT !.hits = @ + 1, !.last_hit = t]

UpdateUpdate(row, t) == [row EXCEPT !.updates = @ + 1, !.updated = t]

\* a handler that swallows nothing
SwallowedNever(exc) == FALSE

\* except duckdb.TransactionException: pass
Swallowed(exc) == exc = "TransactionException"

\* what log_table_usage / log_table_update raise to their caller
LogRaises(exc) == IF Swallowed(exc) THEN NULL ELSE exc

\* an increment of one statement per table: a fault strikes after the first
\* table's statement has been committed
UsageUpsertPerTable(cat, tables, t, fault) ==
    LET proposed == {NewRow([table_name |-> n, hits |-> 1, last_hit |-> t], t) : n \in tables}
        update == [r \in cat |-> UsageUpdate(r, t)]
        first == {CHOOSE r \in proposed : TRUE}
    IN IF fault # NULL /\ tables # {}
       THEN [cat |-> Upsert(cat, first, update, NULL).cat, exc |-> fault]
       ELSE Upsert(cat, proposed, update, fault)

UsageUpsert(cat, tables, t, fault) ==
    LET proposed == {NewRow([table_name |-> n, hits |-> 1, last_hit |-> t], t) : n \in tables}
        update == [r \in cat |-> UsageUpdate(r, t)]
    IN Upsert(cat, proposed, update, fault)

UpdateUpsert(cat, tables, t, fault) ==
    LET proposed == {NewRow([table_name |-> n, updates |-> 1, updated |-> t], t) : n \in tables}
        update == [r \in cat |-> UpdateUpdate(r, t)]
    IN Upsert(cat, proposed, update, fault)

----------------------------------------------------------------------------
(* Reference detection: DuckDBMonitorMiddleware._find_referenced_tables.    *)
(* Text is a sequence of characters. A parsed statement is a sequence of    *)
(* items, each a leaf token (its text) or a group of items; the statement's *)
(* text is the text of its leaves in order.                                 *)

Lower == <<"i", "r", "s", "e", "c", "o", "n", "m", "t", "x">>

Upper == <<"I", "R", "S", "E", "C", "O", "N", "M", "T", "X">>

Digits == {"2", "3"}

\* str.upper() of one character
UpperChar(c) ==
    IF \E k \in 1..Len(Lower) : Lower[k] = c
    THEN Upper[CHOOSE k \in 1..Len(Lower) : Lower[k] = c]
    ELSE c

StrUpper(s) == [i \in 1..Len(s) |-> UpperChar(s[i])]

\* \w of the re module
IsWordChar(c) ==
    \/ \E k \in 1..Len(Lower) : c = Lower[k] \/ c = Upper[k]
    \/ c \in Digits
    \/ c = "_"

RECURSIVE LStrip(_, _)
LStrip(s, c) == IF s # <<>> /\ Head(s) = c THEN LStrip(Tail(s), c) ELSE s

RECURSIVE RStrip(_, _)
RStrip(s, c) ==
    IF s # <<>> /\ s[Len(s)] = c THEN RStrip(SubSeq(s, 1, Len(s) - 1), c) ELSE s

\* str.strip(c)
Strip(s, c) == RStrip(LStrip(s, c), c)

\* the characters that are not letters or digits, by name
SPACE == " "

DQUOTE == "double-quote"

SQUOTE == "single-quote"

BACKTICK == "backtick"

\* token.strip() and the three strips of the quote characters, in the
\* order double quote, single quote, backtick
CleanToken(token) == Strip(Strip(Strip(Strip(token, SPACE), DQUOTE), SQUOTE), BACKTICK)

Leaf(text) == [leaf |-> TRUE, text |-> text, tokens |-> <<>>]

Group(items) == [leaf |-> FALSE, text |-> <<>>, tokens |-> items]

\* the extraction that does not descend into groups
RECURSIVE ExtractTopLevelTokens(_, _)
ExtractTopLevelTokens(token_list, depth) ==
    IF token_list = <<>> THEN <<>>
    ELSE LET token == Head(token_list)
             rest == ExtractTopLevelTokens(Tail(token_list), depth)
         IN IF ~token.leaf THEN rest
            ELSE LET token_value == Strip(token.text, SPACE)
                 IN IF token_value # <<>> THEN <<token_value>> \o rest ELSE rest

\* _extract_all_tokens: the leaves of the tree in order, stripped, the
\* blank ones dropped. depth bounds the nesting of groups.
RECURSIVE ExtractAllTokens(_, _)
ExtractAllTokens(token_list, depth) ==
    IF token_list = <<>> THEN <<>>
    ELSE LET token == Head(token_list)
             rest == ExtractAllTokens(Tail(token_list), depth)
         IN IF ~token.leaf
            THEN (IF depth = 0 THEN <<>> ELSE ExtractAllTokens(token.tokens, depth - 1))
                 \o rest
            ELSE LET token_value == Strip(token.text, SPACE)
                 IN IF token_value # <<>> THEN <<token_value>> \o rest ELSE rest

\* str(statement): the text the tree was parsed from
RECURSIVE TextOf(_, _)
TextOf(token_list, depth) ==
    IF token_list = <<>> THEN <<>>
    ELSE LET token == Head(token_list)
         IN (IF token.leaf THEN token.text
             ELSE IF depth = 0 THEN <<>> ELSE TextOf(token.tokens, depth - 1))
            \o TextOf(Tail(token_list), depth)

MaxDepth == 2

\* a pattern without the word boundaries: every position will do
WordBoundaryAnywhere(text, i) == TRUE

\* is position i of text (1..Len+1) a word boundary of the re module
WordBoundary(text, i) ==
    LET before == i > 1 /\ IsWordChar(text[i - 1])
        after == i <= Len(text) /\ IsWordChar(text[i])
    IN before # after

\* re.search of the word between two word boundaries
WholeWordSearch(word, text) ==
    \E i \in 1..(Len(text) - Len(word) + 1) :
        /\ SubSeq(text, i, i + Len(word) - 1) = word
        /\ WordBoundary(text, i)
        /\ WordBoundary(text, i + Len(word))

\* the tokenizer pass: clean tokens that equal a known name
TokenMatches(parsed, tables) ==
    LET tokens == ExtractAllTokens(parsed, MaxDepth)
    IN {n \in tables : \E i \in 1..Len(tokens) : CleanToken(tokens[i]) = Chars[n]}

\* the regex pass over the raw text
RegexMatches(sql, tables) ==
    {n \in tables : WholeWordSearch(StrUpper(Chars[n]), StrUpper(sql))}

\* parse_raises: sqlparse.parse(sql)[0] raised, the except clause printed it
FindReferencedTables(parsed, tables, parse_raises) ==
    LET referenced_tables == IF parse_raises THEN {} ELSE TokenMatches(parsed, tables)
    IN IF referenced_tables = {}
       THEN RegexMatches(TextOf(parsed, MaxDepth), tables)
       ELSE referenced_tables

\* ask_available_tables of the local middleware: the tables of the datasets
\* schema but the denylisted ones
AskAvailableTables(ds) == DOMAIN ds \ SYSTEM_TABLES

----------------------------------------------------------------------------
(* The connection resolver and the connection map *)

\* None, where a connection detail is expected
NoConnection ==
    [kind |-> NULL, cluster |-> NULL, cluster_friendly_name |-> NULL, database |-> NULL]

DuckDbConnectionDetail ==
    [kind |-> "duck", cluster |-> NULL, cluster_friendly_name |-> NULL, database |-> NULL]

\* PostgresConnectionDetail(**(base cluster properties | properties of etc)):
\* the registry entry of a cluster gives host (cluster), port, username and
\* password; an unregistered cluster gives {} and the model's required
\* fields are missing
PostgresConnectionDetail(etc, cfg) ==
    [kind |-> "postgres",
     cluster |-> etc.cluster,
     cluster_friendly_name |-> etc.cluster_friendly_name,
     database |-> etc.database]

\* get_connection_detail: any exception on the way is caught and None returned
GetConnectionDetail(connection_type, etc, cfg) ==
    CASE connection_type = "duck" -> DuckDbConnectionDetail
      [] connection_type = "postgres" ->
            IF /\ "cluster" \in DOMAIN etc
               /\ {"cluster_friendly_name", "database"} \subseteq DOMAIN etc
               /\ etc.cluster \in DOMAIN cfg
            THEN PostgresConnectionDetail(etc, cfg)
            ELSE NoConnection
      [] OTHER -> NoConnection

\* the friendly_name property, as the parts of the formatted string
FriendlyName(detail) ==
    IF detail.kind = "duck" THEN <<"Flatfiles">>
    ELSE <<"PostgreSQL: ", detail.database, "@",
           IF detail.cluster_friendly_name \notin {NULL, ""}
           THEN detail.cluster_friendly_name ELSE detail.cluster>>

\* ask_available_tables of the external middleware
PgAskAvailableTables(cat) == {r.table_name : r \in {x \in cat : x.external_type = "postgres"}}

\* dict union l | r
DictUnion(l, r) == [n \in DOMAIN l \cup DOMAIN r |-> IF n \in DOMAIN r THEN r[n] ELSE l[n]]

\* update_connection_map: the new value of map_tables_to_connections
ConnectionMap(cat, ds, cfg) ==
    LET duck_names == AskAvailableTables(ds)
        duck_details == [tbl \in duck_names |-> GetConnectionDetail("duck", EmptyEtc, cfg)]
        pg_found == {tbl \in PgAskAvailableTables(cat) :
                        GetConnectionDetail("postgres", RowOf(cat, tbl).etc, cfg) # NoConnection}
        pg_details == [tbl \in pg_found |->
                        GetConnectionDetail("postgres", RowOf(cat, tbl).etc, cfg)]
    IN DictUnion(duck_details, pg_details)

\* get_connector of the package: the middleware class of a table, or None
GetConnector(cat, ds, table_name) ==
    IF table_name \in PgAskAvailableTables(cat) THEN "PostgresMonitorMiddleware"
    ELSE IF table_name \in AskAvailableTables(ds) THEN "DuckDBMonitorMiddleware"
    ELSE NULL

----------------------------------------------------------------------------
(* Inputs *)

\* the faults the store can answer a catalog statement with
StoreFaults == {NULL, "TransactionException"}

\* the errors the increment statement of a logged query can end with: none,
\* a transaction conflict, or another error of the store
LoggingFaults == StoreFaults \cup {"IOException"}

DefaultArgs == [table_description |-> NULL, table_type |-> "system", owned_by |-> "unknown"]

UserArgs == [table_description |-> "d", table_type |-> "user-persistent", owned_by |-> "jb"]


Frames == {"df1", "df2"}

IngestNames == {"iris", "t2"}

EtcFull ==
    [cluster |-> "c1", cluster_friendly_name |-> "Main", database |-> "d1", sql |-> "q"]

EtcNoFriendlyName == [cluster |-> "c1", database |-> "d1", sql |-> "q"]

EtcUnknownCluster == [cluster |-> "c9", database |-> "d1", sql |-> "q"]

EtcUnknownDatabase == [cluster |-> "c1", database |-> "d9", sql |-> "q"]

EtcNoSql == [cluster |-> "c1", database |-> "d1"]

\* (external_type, etc) of the pseudo_ingest calls
PseudoRequests ==
    {<<"postgres", EtcFull>>, <<"postgres", EtcNoFriendlyName>>,
     <<"postgres", EtcUnknownCluster>>, <<"postgres", EtcUnknownDatabase>>,
     <<"postgres", EtcNoSql>>, <<"mysql", EtcFull>>}

\* the dataset definitions of the directory: two that are valid and one that
\* is not, for its cluster or for its missing sql
DefT2 ==
    [table_name |-> "t2", cluster |-> "c1", cluster_friendly_name |-> "Main",
     database |-> "d1", sql |-> "q"]

DefT3 ==
    [table_name |-> "t3", owned_by |-> "jb", cluster |-> "c1",
     cluster_friendly_name |-> "Main", database |-> "d1", sql |-> "q"]

DefUnknownCluster == [table_name |-> "t4", cluster |-> "c9", database |-> "d1", sql |-> "q"]

DefNoSql == [table_name |-> "t4", cluster |-> "c1", database |-> "d1"]

BadDefinitions == {DefUnknownCluster, DefNoSql}

\* the orders in which glob can yield the files of a directory
Orders(dir) == {o \in [1..Cardinality(dir) -> dir] : \A d \in dir : \E i \in DOMAIN o : o[i] = d}

\* the table lists of direct log_table_usage / log_table_update calls
LogLists == {{"iris"}, {"t3"}, {"iris", "t2"}}

Word(n) == Leaf(Chars[n])

Quoted(q, text) == Leaf(<<q>> \o text \o <<q>>)

\* the parse tree of the items written with one blank between them
RECURSIVE Spaced(_)
Spaced(items) ==
    IF Len(items) <= 1 THEN items
    ELSE <<Head(items), Leaf(<<SPACE>>)>> \o Spaced(Tail(items))

\* the statements of the catalog specification
Statements == {Spaced(<<Word("iris"), Word("iris"), Word("economics")>>), <<Word("t2")>>}

\* the items of the statements of the reference-detection specification:
\* a name bare, in upper case, quoted, inside a longer word, in nested
\* quotes, in a parenthesis
Items ==
    {Word("iris"), Leaf(StrUpper(Chars["iris"])),
     Quoted(DQUOTE, Chars["iris"]), Quoted(SQUOTE, Chars["iris"]),
     Quoted(BACKTICK, Chars["iris"]),
     Leaf(Chars["iris"] \o <<"x">>),
     Quoted(SQUOTE, <<DQUOTE>> \o Chars["iris"] \o <<DQUOTE>>),
     Group(<<Leaf(<<"(">>), Word("iris"), Leaf(<<")">>)>>),
     Word("economics"), Leaf(StrUpper(Chars["economics"])),
     Word("t2"), Leaf(<<"x">>)}

ItemSeqs(n) == UNION {[1..k -> Items] : k \in 1..n}

QueryStatements == {Spaced(q) : q \in ItemSeqs(MaxTokens)}

----------------------------------------------------------------------------
(* Actions *)

Call(op, name, exc, ret, arg) ==
    [op |-> op, name |-> name, exc |-> exc, ret |-> ret, arg |-> arg]

Tick == now < MaxNow /\ now' = now + 1

\* an ingest that rebuilds the connection map after its catalog statement
IngestRebuilds(df, table_name, args, fault) ==
    LET res == IngestCatalog(catalog, datasets, table_name, args, now, fault)
    IN /\ Tick
       /\ datasets' = Materialize(datasets, table_name, df)
       /\ catalog' = res.cat
       /\ map_tables_to_connections' = ConnectionMap(catalog', datasets', config)
       /\ last' = Call("ingest", table_name, res.exc, NULL, [df |-> df, args |-> args])
       /\ UNCHANGED <<config, CLUSTERS, calls>>

\* DUCKDB.ingest(df, table_name, ...)
Ingest(df, table_name, args, fault) ==
    LET res == IngestCatalog(catalog, datasets, table_name, args, now, fault)
    IN /\ Tick
       /\ datasets' = Materialize(datasets, table_name, df)
       /\ catalog' = res.cat
       /\ last' = Call("ingest", table_name, res.exc, NULL, [df |-> df, args |-> args])
       /\ UNCHANGED <<config, CLUSTERS, map_tables_to_connections, calls>>

\* DUCKDB.pseudo_ingest(table_name, ...)
PseudoIngest(table_name, args, external_type, etc, supplied_conn, fault) ==
    LET validation == PseudoIngestValidation(external_type, etc, CLUSTERS)
        res == IF validation # NULL
               THEN [cat |-> catalog, exc |-> PseudoIngestRaises(validation, supplied_conn)]
               ELSE PseudoIngestCatalog(catalog, table_name, args, external_type, etc, now, fault)
    IN /\ Tick
       /\ validation # NULL => fault = NULL
       /\ catalog' = res.cat
       /\ last' = Call("pseudo_ingest", table_name, res.exc, NULL,
                       [external_type |-> external_type, etc |-> etc, args |-> args,
                        supplied_conn |-> supplied_conn, validation |-> validation,
                        conn |-> PseudoIngestConnection(validation, supplied_conn)])
       /\ UNCHANGED <<datasets, config, CLUSTERS, map_tables_to_connections, calls>>

\* DuckDBMonitorMiddleware.log_table_usage(tables)
LogTableUsage(tables, fault) ==
    LET res == UsageUpsert(catalog, tables, now, fault)
    IN /\ Tick
       /\ catalog' = res.cat
       /\ last' = Call("log_table_usage", NULL, LogRaises(res.exc), NULL,
                       [tables |-> tables, fault |-> fault])
       /\ UNCHANGED <<datasets, config, CLUSTERS, map_tables_to_connections, calls>>

\* DuckDBMonitorMiddleware.log_table_update(tables)
LogTableUpdate(tables, fault) ==
    LET res == UpdateUpsert(catalog, tables, now, fault)
    IN /\ Tick
       /\ catalog' = res.cat
       /\ last' = Call("log_table_update", NULL, LogRaises(res.exc), NULL,
                       [tables |-> tables, fault |-> fault])
       /\ UNCHANGED <<datasets, config, CLUSTERS, map_tables_to_connections, calls>>

\* a query that logs whatever skip_logging says
LoggedAlways(skip_logging) == TRUE

\* if not skip_logging:
Logged(skip_logging) == ~skip_logging

\* a get_dataframe that executes the query first and logs it when it has
\* succeeded
GetDataframeLogsAfter(parsed, skip_logging, parse_raises, fault, query_raises) ==
    LET tables == AskAvailableTables(datasets)
        referenced_tables ==
            IF ~Logged(skip_logging) THEN {}
            ELSE FindReferencedTables(parsed, tables, parse_raises)
        res == IF referenced_tables # {} /\ ~query_raises
               THEN UsageUpsert(catalog, referenced_tables, now, fault)
               ELSE [cat |-> catalog, exc |-> NULL]
        log_exc == LogRaises(res.exc)
        exc == IF query_raises THEN "DatabaseError" ELSE log_exc
    IN /\ Tick
       /\ skip_logging => ~parse_raises
       /\ referenced_tables = {} => fault = NULL
       /\ catalog' = res.cat
       /\ last' = Call("get_dataframe", NULL, exc, IF exc = NULL THEN "df" ELSE NULL,
                       [sql |-> parsed, skip_logging |-> skip_logging,
                        parse_raises |-> parse_raises,
                        referenced_tables |-> referenced_tables, fault |-> fault,
                        executed |-> TRUE, query_raises |-> query_raises])
       /\ UNCHANGED <<datasets, config, CLUSTERS, map_tables_to_connections, calls>>

\* DuckDBMonitorMiddleware.get_dataframe(sql, skip_logging): log_query, then
\* pd.read_sql. query_raises: the store rejects the statement.
GetDataframe(parsed, skip_logging, parse_raises, fault, query_raises) ==
    LET tables == AskAvailableTables(datasets)
        referenced_tables ==
            IF ~Logged(skip_logging) THEN {}
            ELSE FindReferencedTables(parsed, tables, parse_raises)
        res == IF referenced_tables # {}
               THEN UsageUpsert(catalog, referenced_tables, now, fault)
               ELSE [cat |-> catalog, exc |-> NULL]
        log_exc == LogRaises(res.exc)
        executed == log_exc = NULL
        exc == IF ~executed THEN log_exc ELSE IF query_raises THEN "DatabaseError" ELSE NULL
    IN /\ Tick
       /\ skip_logging => ~parse_raises
       /\ referenced_tables = {} => fault = NULL
       /\ catalog' = res.cat
       /\ last' = Call("get_dataframe", NULL, exc, IF exc = NULL THEN "df" ELSE NULL,
                       [sql |-> parsed, skip_logging |-> skip_logging,
                        parse_raises |-> parse_raises,
                        referenced_tables |-> referenced_tables, fault |-> fault,
                        executed |-> executed, query_raises |-> query_raises])
       /\ UNCHANGED <<datasets, config, CLUSTERS, map_tables_to_connections, calls>>

\* an external query that logs its hit once connected, before the fetch
ExternalLoggedBeforeFetch(connected, fetched, skip_logging) ==
    connected /\ Logged(skip_logging)

\* the hit of an external query: log_table_usage stands after pd.read_sql and
\* the post-process step, inside the same with block
ExternalLogged(connected, fetched, skip_logging) == fetched /\ Logged(skip_logging)

\* PostgresMonitorMiddleware.get_dataframe(table_name, skip_logging).
\* fetch_raises: connecting, the external query or the post-process raises.
PgGetDataframe(table_name, skip_logging, fetch_raises, fault) ==
    LET found == table_name \in PgAskAvailableTables(catalog)
        etc == RowOf(catalog, table_name).etc
        valid == EtcSchemaValid(etc)
        rebuilt == ConnectionMap(catalog, datasets, config)
        connected == found /\ valid /\ table_name \in DOMAIN rebuilt
        fetched == connected /\ ~fetch_raises
        logged == ExternalLogged(connected, fetched, skip_logging)
        res == IF logged THEN UsageUpsert(catalog, {table_name}, now, fault)
               ELSE [cat |-> catalog, exc |-> NULL]
        exc == IF found /\ ~valid THEN "ValidationError"
               ELSE IF connected /\ fetch_raises THEN "OperationalError"
               ELSE LogRaises(res.exc)
    IN /\ Tick
       /\ ~connected => ~fetch_raises
       /\ ~logged => fault = NULL
       /\ catalog' = res.cat
       /\ map_tables_to_connections' =
            IF found /\ valid THEN rebuilt ELSE map_tables_to_connections
       /\ last' = Call("pg_get_dataframe", table_name, exc,
                       IF fetched /\ exc = NULL THEN "df" ELSE NULL,
                       [skip_logging |-> skip_logging, found |-> found,
                        connected |-> connected, fetch_raises |-> fetch_raises,
                        fault |-> fault])
       /\ UNCHANGED <<datasets, config, CLUSTERS, calls>>

\* POSTGRES.init(conn): reload_config reads the configuration the module
\* loaded at import, then every file of the directory is ingested
PostgresInit(files) ==
    LET clusters == Registry0
        res == IngestHjsonFiles(catalog, files, clusters, now)
    IN /\ Tick
       /\ CLUSTERS' = clusters
       /\ catalog' = res.cat
       /\ last' = Call("postgres_init", NULL, res.exc, NULL, [files |-> files])
       /\ UNCHANGED <<datasets, config, map_tables_to_connections, calls>>

\* update_connection_map()
UpdateConnectionMap ==
    /\ map_tables_to_connections' = ConnectionMap(catalog, datasets, config)
    /\ last' = Call("update_connection_map", NULL, NULL, NULL, <<>>)
    /\ UNCHANGED <<catalog, datasets, config, CLUSTERS, now, calls>>

\* an operator removes a cluster from config.hjson
RemoveCluster(c) ==
    /\ c \in DOMAIN config
    /\ config' = [k \in DOMAIN config \ {c} |-> config[k]]
    /\ last' = Call("remove_cluster", c, NULL, NULL, <<>>)
    /\ UNCHANGED <<catalog, datasets, CLUSTERS, map_tables_to_connections, now, calls>>

----------------------------------------------------------------------------
(* The state after base.init(wipe=True): DUCKDB.init has ingested the       *)
(* sample tables, no dataset definition is registered, the map is built.    *)

IrisArgs == [table_description |-> "iris data", table_type |-> "system", owned_by |-> "unknown"]

EconomicsArgs ==
    [table_description |-> "economics data", table_type |-> "system", owned_by |-> "unknown"]

InitDatasets == Materialize(Materialize(<<>>, "iris", "df_iris"), "economics", "df_economics")

InitCatalog ==
    LET c1 == IngestCatalog({}, <<>>, "iris", IrisArgs, 0, NULL).cat
    IN IngestCatalog(c1, Materialize(<<>>, "iris", "df_iris"), "economics", EconomicsArgs, 0, NULL).cat

Workers == 1..NumWorkers

Init ==
    /\ catalog = InitCatalog
    /\ datasets = InitDatasets
    /\ config = Registry0
    /\ CLUSTERS = Registry0
    /\ map_tables_to_connections = ConnectionMap(InitCatalog, InitDatasets, Registry0)
    /\ now = 1
    /\ last = Call("init", NULL, NULL, NULL, <<>>)
    /\ calls = [w \in Workers |-> [state |-> "pending", fault |-> NULL]]

Next ==
    \/ \E df \in Frames, n \in IngestNames, f \in StoreFaults : Ingest(df, n, UserArgs, f)
    \/ \E n \in IngestNames, r \in PseudoRequests, s \in BOOLEAN, f \in StoreFaults :
            /\ PseudoIngestValidation(r[1], r[2], CLUSTERS) = NULL => s
            /\ PseudoIngest(n, DefaultArgs, r[1], r[2], s, f)
    \/ \E l \in LogLists, f \in StoreFaults : LogTableUsage(l, f)
    \/ \E l \in LogLists, f \in StoreFaults : LogTableUpdate(l, f)
    \/ \E q \in Statements, s \in BOOLEAN, f \in LoggingFaults, x \in BOOLEAN :
            GetDataframe(q, s, FALSE, f, x)
    \/ \E n \in Names \ {"economics"}, s \in BOOLEAN, x \in BOOLEAN, f \in StoreFaults :
            PgGetDataframe(n, s, x, f)
    \/ \E bad \in BadDefinitions : \E files \in Orders({DefT2, DefT3, bad}) :
            PostgresInit(files)
    \/ UpdateConnectionMap
    \/ \E c \in DOMAIN config : RemoveCluster(c)

Spec == Init /\ [][Next]_vars

----------------------------------------------------------------------------
(* Reference detection: one logged or unlogged query, over every statement  *)
(* of QueryStatements, on the store as initialized or after t2 is ingested  *)

NextQuery ==
    \/ Ingest("df1", "t2", UserArgs, NULL)
    \/ /\ last.op # "get_dataframe"
       /\ \E q \in QueryStatements, s \in BOOLEAN, p \in BOOLEAN, f \in StoreFaults :
            GetDataframe(q, s, p, f, FALSE)

SpecQuery == Init /\ [][NextQuery]_vars

----------------------------------------------------------------------------
(* Worker processes that each log one hit on the iris row, in any order;    *)
(* the store answers each statement by committing it or with a fault        *)

WorkerFaults == StoreFaults \cup {"IOException"}

Pending == [state |-> "pending", fault |-> NULL]

WorkerLogTableUsage(w, fault) ==
    LET res == UsageUpsert(catalog, {"iris"}, now, fault)
        exc == LogRaises(res.exc)
    IN /\ calls[w] = Pending
       /\ now' = now + 1
       /\ catalog' = res.cat
       /\ calls' = [calls EXCEPT ![w] =
                        [state |-> IF exc = NULL THEN "returned" ELSE "raised",
                         fault |-> fault]]
       /\ last' = Call("log_table_usage", NULL, exc, NULL,
                       [tables |-> {"iris"}, fault |-> fault])
       /\ UNCHANGED <<datasets, config, CLUSTERS, map_tables_to_connections>>

NextWorkers == \E w \in Workers, f \in WorkerFaults : WorkerLogTableUsage(w, f)

SpecWorkers == Init /\ [][NextWorkers]_vars

----------------------------------------------------------------------------
(* Worker processes that each ingest, or each pseudo_ingest, the name t2,    *)
(* which the catalog does not know. A call is its statements in order: the  *)
(* existence check, for ingest the CREATE OR REPLACE TABLE, and the catalog *)
(* statement; the statements of different calls interleave.                 *)

RaceName == "t2"

RaceOps == {"ingest", "pseudo_ingest"}

RaceStart == [state |-> "start", op |-> NULL, table_already_exists |-> FALSE, exc |-> NULL]

InitRace ==
    /\ catalog = InitCatalog
    /\ datasets = InitDatasets
    /\ config = Registry0
    /\ CLUSTERS = Registry0
    /\ map_tables_to_connections = ConnectionMap(InitCatalog, InitDatasets, Registry0)
    /\ now = 1
    /\ last = Call("init", NULL, NULL, NULL, <<>>)
    /\ calls = [w \in Workers |-> RaceStart]

\* the existence check: ingest asks duckdb_tables(), pseudo_ingest the catalog
RaceCheck(w, op) ==
    /\ calls[w].state = "start"
    /\ calls' = [calls EXCEPT ![w] =
                    [state |-> "checked", op |-> op, exc |-> NULL,
                     table_already_exists |->
                        IF op = "ingest" THEN RaceName \in DOMAIN datasets
                        ELSE HasRow(catalog, RaceName)]]
    /\ last' = Call(op, RaceName, NULL, NULL, [worker |-> w, step |-> "check"])
    /\ UNCHANGED <<catalog, datasets, config, CLUSTERS, map_tables_to_connections, now>>

\* CREATE OR REPLACE TABLE datasets.t2 of ingest
RaceCreate(w) ==
    /\ calls[w].state = "checked"
    /\ calls[w].op = "ingest"
    /\ datasets' = Materialize(datasets, RaceName, "df1")
    /\ calls' = [calls EXCEPT ![w].state = "created"]
    /\ last' = Call("ingest", RaceName, NULL, NULL, [worker |-> w, step |-> "create"])
    /\ UNCHANGED <<catalog, config, CLUSTERS, map_tables_to_connections, now>>

\* the catalog statement, chosen by what the existence check had found
RaceWrite(w) ==
    LET call == calls[w]
        res == IF call.op = "ingest"
               THEN IngestStatement(catalog, call.table_already_exists, RaceName, UserArgs,
                                    now, NULL)
               ELSE PseudoIngestStatement(catalog, call.table_already_exists, RaceName,
                                          DefaultArgs, "postgres", EtcFull, now, NULL)
    IN /\ \/ call.op = "ingest" /\ call.state = "created"
          \/ call.op = "pseudo_ingest" /\ call.state = "checked"
       /\ now' = now + 1
       /\ catalog' = res.cat
       /\ calls' = [calls EXCEPT ![w].state = IF res.exc = NULL THEN "returned" ELSE "raised",
                                 ![w].exc = res.exc]
       /\ last' = Call(call.op, RaceName, res.exc, NULL, [worker |-> w, step |-> "write"])
       /\ UNCHANGED <<datasets, config, CLUSTERS, map_tables_to_connections>>

NextRace ==
    \/ \E w \in Workers, op \in RaceOps : RaceCheck(w, op)
    \/ \E w \in Workers : RaceCreate(w)
    \/ \E w \in Workers : RaceWrite(w)

SpecRace == InitRace /\ [][NextRace]_vars

----------------------------------------------------------------------------
(* The web process and the task workers. Each process has its own copy of   *)
(* the module global map_tables_to_connections: the variable of that name   *)
(* is the web process's, calls[w].map is worker w's. The page layout, which *)
(* runs in the web process, rebuilds the web's map and offers its keys; the *)
(* graph callback runs in a worker, the datasource callback in the web      *)
(* process, and both look the chosen name up in the map of their process.   *)

\* a worker not yet started
WorkerDown == [state |-> "down", map |-> <<>>]

InitProcesses ==
    /\ catalog = InitCatalog
    /\ datasets = InitDatasets
    /\ config = Registry0
    /\ CLUSTERS = Registry0
    /\ map_tables_to_connections = ConnectionMap(InitCatalog, InitDatasets, Registry0)
    /\ now = 1
    /\ last = Call("init", NULL, NULL, NULL, <<>>)
    /\ calls = [w \in Workers |-> WorkerDown]

\* connection = base.map_tables_to_connections[table_name], then
\* connection.get_dataframe(table_name=table_name), in the process whose map
\* is proc_map: [exc, cat, map]
GraphQuery(proc_map, table_name, cat, ds, cfg, t) ==
    IF table_name \notin DOMAIN proc_map
    THEN [exc |-> "KeyError", cat |-> cat, map |-> proc_map]
    ELSE IF proc_map[table_name].kind = "duck"
         THEN LET referenced_tables ==
                    FindReferencedTables(<<Word(table_name)>>, AskAvailableTables(ds), FALSE)
                  res == IF referenced_tables # {}
                         THEN UsageUpsert(cat, referenced_tables, t, NULL)
                         ELSE [cat |-> cat, exc |-> NULL]
              IN [exc |-> IF table_name \in DOMAIN ds THEN NULL ELSE "CatalogException",
                  cat |-> res.cat, map |-> proc_map]
         ELSE LET found == table_name \in PgAskAvailableTables(cat)
                  rebuilt == ConnectionMap(cat, ds, cfg)
                  connected == found /\ table_name \in DOMAIN rebuilt
                  res == IF connected THEN UsageUpsert(cat, {table_name}, t, NULL)
                         ELSE [cat |-> cat, exc |-> NULL]
              IN [exc |-> NULL, cat |-> res.cat, map |-> IF found THEN rebuilt ELSE proc_map]

\* worker.py: the modules are imported, which leaves the worker's map as
\* declared, empty; DUCKDB.init() ingests the sample tables; the queue starts
WorkerMain(w) ==
    LET ds1 == Materialize(datasets, "iris", "df_iris")
        c1 == IngestCatalog(catalog, datasets, "iris", IrisArgs, now, NULL).cat
        c2 == IngestCatalog(c1, ds1, "economics", EconomicsArgs, now, NULL).cat
    IN /\ calls[w].state = "down"
       /\ Tick
       /\ datasets' = Materialize(ds1, "economics", "df_economics")
       /\ catalog' = c2
       /\ calls' = [calls EXCEPT ![w] = [state |-> "up", map |-> <<>>]]
       /\ last' = Call("worker_main", NULL, NULL, NULL, [process |-> w])
       /\ UNCHANGED <<config, CLUSTERS, map_tables_to_connections>>

\* Distro._update_graph, a background callback run by worker w, for a name
\* the web process offered from its map
WorkerUpdateGraph(w, table_name) ==
    LET res == GraphQuery(calls[w].map, table_name, catalog, datasets, config, now)
    IN /\ calls[w].state = "up"
       /\ table_name \in DOMAIN map_tables_to_connections
       /\ Tick
       /\ catalog' = res.cat
       /\ calls' = [calls EXCEPT ![w].map = res.map]
       /\ last' = Call("update_graph", table_name, res.exc, NULL, [process |-> w])
       /\ UNCHANGED <<datasets, config, CLUSTERS, map_tables_to_connections>>

\* Distro._confirm_datasource, a callback run by the web process, for a name
\* the web process offered from its map
WebConfirmDatasource(table_name) ==
    LET res == GraphQuery(map_tables_to_connections, table_name, catalog, datasets, config, now)
    IN /\ table_name \in DOMAIN map_tables_to_connections
       /\ Tick
       /\ catalog' = res.cat
       /\ map_tables_to_connections' = res.map
       /\ last' = Call("confirm_datasource", table_name, res.exc, NULL, [process |-> "web"])
       /\ UNCHANGED <<datasets, config, CLUSTERS, calls>>

NextProcesses ==
    \/ \E df \in Frames, n \in IngestNames : Ingest(df, n, UserArgs, NULL)
    \/ \E n \in {"t2", "t3"} : PseudoIngest(n, DefaultArgs, "postgres", EtcFull, TRUE, NULL)
    \/ UpdateConnectionMap
    \/ \E w \in Workers : WorkerMain(w)
    \/ \E w \in Workers, n \in Names : WorkerUpdateGraph(w, n)
    \/ \E n \in Names : WebConfirmDatasource(n)

SpecProcesses == InitProcesses /\ [][NextProcesses]_vars

----------------------------------------------------------------------------
(* Properties *)

Materialized(name) == name \in DOMAIN datasets

\* C1: every catalog row with external_type null has a materialized table of
\* its name in the datasets schema, and every row with external_type
\* 'postgres' has none
C1_MaterializedIffLocal ==
    \A r \in catalog :
        /\ r.external_type = NULL => Materialized(r.table_name)
        /\ r.external_type = "postgres" => ~Materialized(r.table_name)

\* C2: in every reachable state every catalog row has is_pseudo_table true
\* exactly when its external_type is not null
C2_PseudoIffExternal ==
    \A r \in catalog : r.is_pseudo_table <=> r.external_type # NULL

\* a row that ingest created and pseudo_ingest then rewrote
C2_Witness ==
    /\ last.op = "pseudo_ingest"
    /\ last.exc = NULL
    /\ last.name = "iris"
    /\ RowOf(catalog, "iris").is_pseudo_table
    /\ RowOf(catalog, "iris").updates = 1

\* the request of a pseudo_ingest call is one the claim says must fail
BadRequest(external_type, etc) ==
    \/ external_type \notin ExternalTypes
    \/ ~EtcSchemaValid(etc)
    \/ etc.cluster \notin DOMAIN CLUSTERS
    \/ etc.database \notin CLUSTERS[etc.cluster]

\* C3: a pseudo_ingest call whose etc fails schema validation, whose cluster
\* or database is not registered, or whose external_type is unknown raises
\* and leaves the catalog as it was
C3_BadRequestLeavesCatalog ==
    [][(last'.op = "pseudo_ingest" /\ BadRequest(last'.arg.external_type, last'.arg.etc))
        => (last'.exc # NULL /\ catalog' = catalog)]_vars

\* a failed pseudo_ingest for a name that has a row, after a call that
\* changed that row
C3_Witness ==
    /\ last.op = "pseudo_ingest"
    /\ last.name = "iris"
    /\ last.arg.etc = EtcUnknownDatabase
    /\ last.exc = "ValueError"
    /\ RowOf(catalog, "iris").updates = 1

HitsOf(cat, name) == IF HasRow(cat, name) THEN RowOf(cat, name).hits ELSE 0

\* the texts of the leaves of a statement
RECURSIVE LeafTexts(_, _)
LeafTexts(items, depth) ==
    UNION {IF items[i].leaf THEN {items[i].text}
           ELSE IF depth = 0 THEN {} ELSE LeafTexts(items[i].tokens, depth - 1) :
           i \in 1..Len(items)}

QuoteChars == {DQUOTE, SQUOTE, BACKTICK}

\* the name stands in the statement as a token of its own, bare or quoted
OccursIn(name, sql) ==
    \E text \in LeafTexts(sql, MaxDepth) :
        \/ text = Chars[name]
        \/ \E q \in QuoteChars : text = <<q>> \o Chars[name] \o <<q>>

\* the letters of the name stand somewhere in the statement, in any case
Mentions(name, sql) ==
    \E text \in LeafTexts(sql, MaxDepth) :
        \E i \in 1..Len(text) :
            /\ i + Len(Chars[name]) - 1 <= Len(text)
            /\ SubSeq(StrUpper(text), i, i + Len(Chars[name]) - 1) = StrUpper(Chars[name])

\* C4: one logged query without a conflict adds exactly 1 to hits of each
\* known local table whose name stands in the statement as a token, however
\* often and wherever, and 0 to hits of every row that is not a known local
\* table or whose name the statement does not mention
C4_OneHitPerReferencedTable ==
    [][(last'.op = "get_dataframe" /\ ~last'.arg.skip_logging /\ last'.arg.fault = NULL)
        => \A n \in Names :
            LET known == n \in AskAvailableTables(datasets)
                sql == last'.arg.sql
            IN /\ (known /\ OccursIn(n, sql)) => HitsOf(catalog', n) = HitsOf(catalog, n) + 1
               /\ (~known \/ ~Mentions(n, sql)) => HitsOf(catalog', n) = HitsOf(catalog, n)
      ]_vars

\* a logged query that names iris twice, once inside a parenthesis
C4_Witness ==
    /\ last.op = "get_dataframe"
    /\ last.arg.sql = Spaced(<<Word("iris"), Group(<<Leaf(<<"(">>), Word("iris"), Leaf(<<")">>)>>)>>)
    /\ ~last.arg.skip_logging
    /\ ~last.arg.parse_raises
    /\ last.arg.fault = NULL
    /\ HitsOf(catalog, "iris") = 1
    /\ HitsOf(catalog, "economics") = 0

Committed == {w \in Workers : calls[w].state = "returned" /\ calls[w].fault = NULL}

Conflicted == {w \in Workers : calls[w].fault = "TransactionException"}

AllCallsOver == \A w \in Workers : calls[w].state # "pending"

\* C5: of the workers' concurrent increments of one row, no call that met a
\* transaction conflict raises; hits is the number of committed increments;
\* when all N calls are over and the only faults were conflicts, hits is
\* N less the conflicts, which is at most N; and hits never decreases
C5_ConcurrentIncrements ==
    /\ [](/\ \A w \in Conflicted : calls[w].state = "returned"
          /\ HitsOf(catalog, "iris") = Cardinality(Committed)
          /\ (AllCallsOver /\ Committed \cup Conflicted = Workers)
                => /\ HitsOf(catalog, "iris") = NumWorkers - Cardinality(Conflicted)
                   /\ HitsOf(catalog, "iris") <= NumWorkers)
    /\ [][HitsOf(catalog', "iris") >= HitsOf(catalog, "iris")]_vars

\* every call is over, some committed and some met a conflict
C5_Witness ==
    /\ AllCallsOver
    /\ Committed \cup Conflicted = Workers
    /\ Cardinality(Conflicted) >= 1
    /\ Cardinality(Committed) >= 2
    /\ HitsOf(catalog, "iris") = Cardinality(Committed)

\* C6: when the increment of a logged query meets a transaction conflict,
\* the query raises no conflict, the catalog is left as it was, the query
\* is executed and, unless the query itself fails, its result is returned
C6_ConflictSwallowed ==
    [][(last'.op = "get_dataframe" /\ last'.arg.fault = "TransactionException")
        => /\ catalog' = catalog
           /\ last'.arg.executed
           /\ last'.exc # "TransactionException"
           /\ ~last'.arg.query_raises => (last'.exc = NULL /\ last'.ret = "df")
      ]_vars

\* a logged query that referenced iris, met a conflict and returned its result
C6_Witness ==
    /\ last.op = "get_dataframe"
    /\ last.arg.fault = "TransactionException"
    /\ "iris" \in last.arg.referenced_tables
    /\ last.ret = "df"
    /\ HitsOf(catalog, "iris") = 0

\* C7: a second ingest of a name with another dataframe, returning without
\* error, leaves exactly one catalog row of that name, its updates 1 higher
\* than after the first call, and the second dataframe as the contents
C7_ReingestReplaces ==
    [][(/\ last.op = "ingest" /\ last'.op = "ingest"
        /\ last'.name = last.name
        /\ last'.arg.df # last.arg.df
        /\ HasRow(catalog, last.name)
        /\ last'.exc = NULL)
        => /\ Cardinality(RowsOf(catalog', last.name)) = 1
           /\ RowOf(catalog', last.name).updates = RowOf(catalog, last.name).updates + 1
           /\ datasets'[last.name] = last'.arg.df
      ]_vars

\* iris, ingested at initialization, ingested twice more
C7_Witness ==
    /\ last.op = "ingest"
    /\ last.name = "iris"
    /\ last.exc = NULL
    /\ last.arg.df = "df2"
    /\ RowOf(catalog, "iris").updates = 2
    /\ datasets["iris"] = "df2"

\* C8: after an ingest of T that returns without error, whatever came
\* before, T is listed as existing and the rebuilt connection map resolves T
\* to the local variant
C8_IngestedResolvesLocal ==
    [][(last'.op = "ingest" /\ last'.exc = NULL)
        => LET rebuilt == ConnectionMap(catalog', datasets', config')
           IN /\ GetConnector(catalog', datasets', last'.name) # NULL
              /\ last'.name \in DOMAIN rebuilt
              /\ rebuilt[last'.name] = DuckDbConnectionDetail
      ]_vars

\* the rows the claims call local, and external with a registered cluster
LocalRows == {r \in catalog : r.external_type = NULL}

RegisteredExternalRows ==
    {r \in catalog :
        /\ r.external_type = "postgres"
        /\ r.etc.cluster \in DOMAIN config
        /\ r.etc.database \in config[r.etc.cluster]}

\* C9: right after a rebuild of the map, an ingested table resolves to the
\* local variant, a pseudo-ingested table whose cluster and database are
\* registered resolves to the external variant carrying that cluster, with
\* or without a friendly cluster name, and a name never registered is absent
C9_ResolveScenario ==
    last.op = "update_connection_map" =>
        \A n \in Names :
            /\ (\E r \in LocalRows : r.table_name = n /\ Materialized(n))
                => (n \in DOMAIN map_tables_to_connections
                    /\ map_tables_to_connections[n] = DuckDbConnectionDetail)
            /\ (\E r \in RegisteredExternalRows : r.table_name = n /\ ~Materialized(n))
                => (/\ n \in DOMAIN map_tables_to_connections
                    /\ map_tables_to_connections[n].kind = "postgres"
                    /\ map_tables_to_connections[n].cluster = RowOf(catalog, n).etc.cluster)
            /\ (~HasRow(catalog, n) /\ ~Materialized(n))
                => n \notin DOMAIN map_tables_to_connections

\* C10: right after update_connection_map the keys of the map are the names
\* of the local rows and of the external rows whose cluster is registered,
\* no key is absent from the catalog and every friendly_name is non-empty
C10_MapConsistent ==
    last.op = "update_connection_map" =>
        /\ DOMAIN map_tables_to_connections
            = {r.table_name : r \in LocalRows \cup RegisteredExternalRows}
        /\ \A n \in DOMAIN map_tables_to_connections :
            /\ HasRow(catalog, n)
            /\ \E i \in 1..Len(FriendlyName(map_tables_to_connections[n])) :
                    FriendlyName(map_tables_to_connections[n])[i] # ""

\* the resolution of name misses: its row is external and its cluster is no
\* longer in the registry, or the catalog has no row of the name
ResolutionMiss(cat, cfg, name) ==
    \/ ~HasRow(cat, name)
    \/ /\ RowOf(cat, name).external_type = "postgres"
       /\ RowOf(cat, name).etc.cluster \notin DOMAIN cfg

\* C11: when the cluster of a pseudo-table has been removed from the
\* registry, or the name has no catalog row, get_connection_detail of the
\* row returns None, the rebuilt map has no entry of the name, and the
\* external get_dataframe of the name returns None and raises nothing
C11_ResolutionMissReportsNone ==
    [][/\ \A n \in Names :
            ResolutionMiss(catalog', config', n)
                => /\ n \notin DOMAIN ConnectionMap(catalog', datasets', config')
                   /\ HasRow(catalog', n)
                        => GetConnectionDetail("postgres", RowOf(catalog', n).etc, config')
                            = NoConnection
       /\ (last'.op = "pg_get_dataframe" /\ ResolutionMiss(catalog, config, last'.name))
            => (last'.ret = NULL /\ last'.exc = NULL)
      ]_vars

\* the name stands in the statement as a token of its own in some letter
\* case, bare or wrapped in one of the quote characters
OccursInAnyCase(name, sql) ==
    \E text \in LeafTexts(sql, MaxDepth) :
        \/ StrUpper(text) = StrUpper(Chars[name])
        \/ \E q \in QuoteChars : StrUpper(text) = <<q>> \o StrUpper(Chars[name]) \o <<q>>

\* C12: one logged query without a conflict adds 1 to hits of every known
\* table whose name stands in the statement in any letter case, bare or in
\* double quotes, single quotes or backticks, whatever other known tables
\* the statement references in their stored case
C12_CaseAndQuoteInsensitive ==
    [][(last'.op = "get_dataframe" /\ ~last'.arg.skip_logging /\ last'.arg.fault = NULL)
        => \A n \in AskAvailableTables(datasets) :
            OccursInAnyCase(n, last'.arg.sql)
                => HitsOf(catalog', n) = HitsOf(catalog, n) + 1
      ]_vars

\* the name is a whole word of the text in some letter case: its letters
\* stand at some place of the text with no letter, digit or underscore
\* before them and none after them
IsWholeWordOf(name, text) ==
    LET word == StrUpper(Chars[name])
        upper == StrUpper(text)
    IN \E i \in 1..Len(text) :
        /\ i + Len(word) - 1 <= Len(text)
        /\ \A k \in 1..Len(word) : upper[i + k - 1] = word[k]
        /\ i = 1 \/ ~IsWordChar(text[i - 1])
        /\ i + Len(word) > Len(text) \/ ~IsWordChar(text[i + Len(word)])

\* C13: when the parser raises or no token equals a known name, a logged
\* query without a conflict adds 1 to hits of exactly the known tables whose
\* name is a whole word of the raw text in some letter case, a name that
\* stands only inside a longer word gets nothing, and the query is executed
\* and returns its result though the parser raised
C13_RegexFallback ==
    [][(last'.op = "get_dataframe" /\ ~last'.arg.skip_logging)
        => LET sql == last'.arg.sql
               tables == AskAvailableTables(datasets)
               fallback ==
                    \/ last'.arg.parse_raises
                    \/ \A n \in tables : ~OccursIn(n, sql)
           IN /\ (fallback /\ last'.arg.fault = NULL)
                    => \A n \in tables :
                        HitsOf(catalog', n) = HitsOf(catalog, n) +
                            (IF IsWholeWordOf(n, TextOf(sql, MaxDepth)) THEN 1 ELSE 0)
              /\ last'.arg.parse_raises
                    => (last'.arg.executed /\ last'.exc = NULL /\ last'.ret = "df")
      ]_vars

\* the parser raised on a statement that holds IRIS and irisx: the fallback
\* logged the hit of iris and the query returned its result
C13_Witness ==
    /\ last.op = "get_dataframe"
    /\ last.arg.parse_raises
    /\ last.arg.sql = Spaced(<<Leaf(Chars["iris"] \o <<"x">>), Leaf(StrUpper(Chars["iris"]))>>)
    /\ last.arg.fault = NULL
    /\ last.ret = "df"
    /\ HitsOf(catalog, "iris") = 1
    /\ HitsOf(catalog, "economics") = 0

\* a definition that passes the schema and whose cluster and database are
\* registered
ValidDefinition(definition, clusters) ==
    /\ HjsonSchemaValid(definition)
    /\ PseudoIngestValidation("postgres", HjsonEtc(definition), clusters) = NULL

\* C14: after the batch ingestion of a directory, in whatever order its
\* files were visited and whichever of them failed, every valid definition
\* of the directory has its row in the catalog
C14_BatchIsolation ==
    [][last'.op = "postgres_init"
        => \A i \in 1..Len(last'.arg.files) :
            LET definition == last'.arg.files[i]
            IN ValidDefinition(definition, CLUSTERS')
                => /\ HasRow(catalog', definition.table_name)
                   /\ RowOf(catalog', definition.table_name).external_type = "postgres"
      ]_vars

\* the workers whose call has begun
Begun == {w \in Workers : calls[w].state # "start"}

\* C15: when every call that has begun is an ingest of the unknown name, or
\* every one a pseudo_ingest of it, then however their existence checks and
\* catalog statements interleave no call raises, and once two calls have
\* returned the catalog holds exactly one row of the name
C15_ConcurrentIngestConverges ==
    (\A v, w \in Begun : calls[v].op = calls[w].op)
        => /\ \A w \in Begun : calls[w].state # "raised"
           /\ Cardinality({w \in Begun : calls[w].state = "returned"}) >= 2
                => Cardinality(RowsOf(catalog, RaceName)) = 1

\* the fields a call of ingest or pseudo_ingest supplied, with their values
SuppliedFields(call) ==
    Supplied([table_description |-> call.arg.args.table_description,
              table_type |-> call.arg.args.table_type,
              owned_by |-> call.arg.args.owned_by])
        @@ (IF call.op = "pseudo_ingest"
            THEN [external_type |-> call.arg.external_type, etc |-> call.arg.etc]
            ELSE <<>>)

\* C16: an ingest or pseudo_ingest that returns without error for a name
\* whose row exists sets every supplied field to the supplied value, keeps
\* every other field but updates and updated, adds 1 to updates and
\* refreshes updated; for a name without a row it inserts a row that holds
\* the supplied values and the defaults elsewhere
C16_UpsertSuppliedFields ==
    [][(last'.op \in {"ingest", "pseudo_ingest"} /\ last'.exc = NULL)
        => LET name == last'.name
               supplied == SuppliedFields(last')
               new == RowOf(catalog', name)
           IN /\ HasRow(catalog', name)
              /\ \A c \in DOMAIN supplied : new[c] = supplied[c]
              /\ HasRow(catalog, name)
                    => LET old == RowOf(catalog, name)
                       IN /\ new.updates = old.updates + 1
                          /\ new.updated = now
                          /\ \A c \in Columns \ (DOMAIN supplied \cup
                                    {"updates", "updated", "is_pseudo_table"}) :
                                new[c] = old[c]
              /\ ~HasRow(catalog, name)
                    => \A c \in Columns \ (DOMAIN supplied \cup
                                    {"table_name", "is_pseudo_table"}) :
                            new[c] = ColumnDefault(c, now)
      ]_vars

\* C17: a query with skip_logging set, through the local or the external
\* middleware, leaves the catalog as it was: no row changes and none appears
C17_SkipLoggingLeavesCatalog ==
    [][(last'.op \in {"get_dataframe", "pg_get_dataframe"} /\ last'.arg.skip_logging)
        => catalog' = catalog]_vars

\* an external query with skip_logging set fetched the frame of a registered
\* pseudo-table and its row shows no hit
C17_Witness ==
    /\ last.op = "pg_get_dataframe"
    /\ last.arg.skip_logging
    /\ last.ret = "df"
    /\ HasRow(catalog, last.name)
    /\ RowOf(catalog, last.name).hits = 0

\* C18: from one state to the next, whichever of ingest, pseudo_ingest,
\* log_table_usage, log_table_update or a query acts, every catalog row is
\* still there and neither its hits nor its updates is lower than before
C18_CountersMonotone ==
    [][\A r \in catalog :
        /\ HasRow(catalog', r.table_name)
        /\ \A q \in RowsOf(catalog', r.table_name) :
            q.hits >= r.hits /\ q.updates >= r.updates
      ]_vars

\* a pseudo_ingest rewrote the row of iris, which had a hit logged
C18_Witness ==
    /\ last.op = "pseudo_ingest"
    /\ last.exc = NULL
    /\ last.name = "iris"
    /\ RowOf(catalog, "iris").hits = 1
    /\ RowOf(catalog, "iris").updates = 1
    /\ RowOf(catalog, "iris").external_type = "postgres"

NamesOf(cat) == {r.table_name : r \in cat}

\* C19: log_table_usage, log_table_update and the queries of both
\* middlewares add no row to the catalog: every name that has a row after
\* the call had one before
C19_RowsOnlyFromIngestion ==
    [][last'.op \in {"log_table_usage", "log_table_update", "get_dataframe", "pg_get_dataframe"}
        => NamesOf(catalog') \subseteq NamesOf(catalog)]_vars

\* C20: a pseudo_ingest of external_type postgres whose etc names a cluster
\* or database that is not registered raises the ValueError, and one whose
\* etc fails the schema raises the ValidationError, whether the caller
\* supplied a connection or not
C20_ValidationErrorReachesCaller ==
    [][(last'.op = "pseudo_ingest" /\ last'.arg.external_type = "postgres")
        => LET etc == last'.arg.etc
           IN /\ ~EtcSchemaValid(etc) => last'.exc = "ValidationError"
              /\ (/\ EtcSchemaValid(etc)
                  /\ \/ etc.cluster \notin DOMAIN CLUSTERS
                     \/ etc.database \notin CLUSTERS[etc.cluster])
                    => last'.exc = "ValueError"
      ]_vars

\* C21: whatever error the logging of a query's hits ends with, a conflict
\* or another one, get_dataframe executes the query and, unless the query
\* itself fails, returns its result
C21_LoggingFailureInvisible ==
    [][(last'.op = "get_dataframe" /\ last'.arg.fault # NULL)
        => /\ last'.arg.executed
           /\ ~last'.arg.query_raises => (last'.exc = NULL /\ last'.ret = "df")
      ]_vars

\* C22: an external query leaves hits and last_hit of every row as they
\* were when the table is not found, no connection resolves, or the fetch or
\* the post-process raises; when both succeeded and logging is on and
\* commits, hits of the row of that name is 1 higher and no other row's
\* hits has changed
C22_ExternalHitAfterFetch ==
    [][last'.op = "pg_get_dataframe"
        => LET name == last'.name
               arg == last'.arg
               failed == ~arg.found \/ ~arg.connected \/ arg.fetch_raises
           IN /\ failed
                    => \A r \in catalog :
                        /\ HasRow(catalog', r.table_name)
                        /\ RowOf(catalog', r.table_name).hits = r.hits
                        /\ RowOf(catalog', r.table_name).last_hit = r.last_hit
              /\ (~failed /\ ~arg.skip_logging /\ arg.fault = NULL)
                    => /\ HitsOf(catalog', name) = HitsOf(catalog, name) + 1
                       /\ RowOf(catalog', name).last_hit = now
                       /\ \A n \in NamesOf(catalog') \ {name} :
                            HitsOf(catalog', n) = HitsOf(catalog, n)
      ]_vars

\* the external fetch of a registered pseudo-table raised and its row shows
\* no hit
C22_Witness ==
    /\ last.op = "pg_get_dataframe"
    /\ last.arg.connected
    /\ last.arg.fetch_raises
    /\ ~last.arg.skip_logging
    /\ last.exc = "OperationalError"
    /\ HasRow(catalog, last.name)
    /\ RowOf(catalog, last.name).hits = 0

\* C23: ingest and pseudo_ingest leave the connection map as it was, so the
\* name they registered is in the map after the call only if it was before,
\* and with the detail it had; the map changes only where
\* update_connection_map runs
C23_WritesLeaveMap ==
    [][/\ last'.op \in {"ingest", "pseudo_ingest"}
            => /\ map_tables_to_connections' = map_tables_to_connections
               /\ last'.name \in DOMAIN map_tables_to_connections'
                    <=> last'.name \in DOMAIN map_tables_to_connections
       /\ map_tables_to_connections' # map_tables_to_connections
            => last'.op \in {"update_connection_map", "pg_get_dataframe"}
      ]_vars

\* t2 has been registered by pseudo_ingest and resolves, and the map, not
\* rebuilt since, does not hold it
C23_Witness ==
    /\ last.op = "pseudo_ingest"
    /\ last.exc = NULL
    /\ last.name = "t2"
    /\ HasRow(catalog, "t2")
    /\ "t2" \notin DOMAIN map_tables_to_connections
    /\ "t2" \in DOMAIN ConnectionMap(catalog, datasets, config)

\* C24: a name the web process offered from its rebuilt map is found in the
\* map of the process that executes the query for it, worker or web: the
\* lookup raises no KeyError
C24_LookupInExecutingProcess ==
    [][last'.op \in {"update_graph", "confirm_datasource"} => last'.exc # "KeyError"]_vars

\* C25: on every exit path of pseudo_ingest, a validation error included, a
\* connection the caller supplied is still open, no connection the call
\* opened itself is left open, and the release step raises nothing: the
\* call raises what its body raised
C25_ConnectionReleased ==
    [][last'.op = "pseudo_ingest"
        => /\ last'.arg.supplied_conn => last'.arg.conn = "open"
           /\ ~last'.arg.supplied_conn => last'.arg.conn # "open"
           /\ last'.exc # "AttributeError"
           /\ last'.arg.validation # NULL => last'.exc = last'.arg.validation
      ]_vars

\* C26: a transaction conflict on the catalog row during ingest or
\* pseudo_ingest of a table that has a row already does not reach the
\* caller of the ingestion, and log_table_update raises on no such conflict
C26_IngestConflictSwallowed ==
    [][/\ (/\ last'.op \in {"ingest", "pseudo_ingest"}
           /\ last'.name \in NamesOf(catalog))
          => last'.exc # "TransactionException"
       /\ last'.op = "log_table_update" => last'.exc # "TransactionException"
      ]_vars

\* the tables a call hands to the increment statement
IncrementedTables(call) ==
    IF call.op = "get_dataframe" THEN call.arg.referenced_tables ELSE call.arg.tables

\* C27: the increment of a query is one atomic statement over the whole set
\* of referenced tables: after the call every referenced table's hits is one
\* more than before, or (the statement failed, a swallowed conflict
\* included) none has changed; never a part of the set only
C27_IncrementAtomic ==
    [][last'.op \in {"get_dataframe", "log_table_usage"}
        => LET tables == IncrementedTables(last')
           IN \/ \A n \in tables : HitsOf(catalog', n) = HitsOf(catalog, n) + 1
              \/ \A n \in tables : HitsOf(catalog', n) = HitsOf(catalog, n)
      ]_vars

\* a query that references two tables has incremented both
C27_Witness ==
    /\ last.op = "get_dataframe"
    /\ last.arg.referenced_tables = {"iris", "economics"}
    /\ last.arg.fault = NULL
    /\ HitsOf(catalog, "iris") = 1
    /\ HitsOf(catalog, "economics") = 1

\* a query that references two tables met a conflict and incremented neither
C27_WitnessConflict ==
    /\ last.op = "get_dataframe"
    /\ last.arg.referenced_tables = {"iris", "economics"}
    /\ last.arg.fault = "TransactionException"
    /\ HitsOf(catalog, "iris") = 0
    /\ HitsOf(catalog, "economics") = 0

----------------------------------------------------------------------------
(* Start-up: init(wipe) of the package, which is DUCKDB.init(wipe), then    *)
(* POSTGRES.init over the definition files, then update_connection_map.     *)

\* a DUCKDB.init that leaves the store file in place whatever wipe says
DuckdbInitKeeps(cat, ds, wipe, t) ==
    LET c1 == IngestCatalog(cat, ds, "iris", IrisArgs, t, NULL).cat
        d1 == Materialize(ds, "iris", "df_iris")
        c2 == IngestCatalog(c1, d1, "economics", EconomicsArgs, t, NULL).cat
    IN [cat |-> c2, ds |-> Materialize(d1, "economics", "df_economics")]

\* DUCKDB.init(wipe): the store file is deleted when wipe is set; the schema
\* is created if it does not exist; the sample tables are ingested
DuckdbInit(cat, ds, wipe, t) ==
    LET c0 == IF wipe THEN {} ELSE cat
        d0 == IF wipe THEN <<>> ELSE ds
        c1 == IngestCatalog(c0, d0, "iris", IrisArgs, t, NULL).cat
        d1 == Materialize(d0, "iris", "df_iris")
        c2 == IngestCatalog(c1, d1, "economics", EconomicsArgs, t, NULL).cat
    IN [cat |-> c2, ds |-> Materialize(d1, "economics", "df_economics")]

\* the definition files the directory can hold at start-up, in glob's order
InitDirectories ==
    {<<>>, <<DefT2>>, <<DefT2, DefT3>>, <<DefT3, DefT2>>, <<DefT2, DefUnknownCluster, DefT3>>}

\* init(wipe) of the package; an exception of POSTGRES.init leaves it before
\* update_connection_map
BaseInit(wipe, files) ==
    LET store == DuckdbInit(catalog, datasets, wipe, now)
        res == IngestHjsonFiles(store.cat, files, Registry0, now)
    IN /\ Tick
       /\ catalog' = res.cat
       /\ datasets' = store.ds
       /\ CLUSTERS' = Registry0
       /\ map_tables_to_connections' =
            IF res.exc = NULL THEN ConnectionMap(res.cat, store.ds, config)
            ELSE map_tables_to_connections
       /\ last' = Call("base_init", NULL, res.exc, NULL, [wipe |-> wipe, files |-> files])
       /\ UNCHANGED <<config, calls>>

NextInit ==
    \/ \E df \in Frames, n \in IngestNames : Ingest(df, n, UserArgs, NULL)
    \/ \E n \in {"t2", "t3"} : PseudoIngest(n, DefaultArgs, "postgres", EtcFull, TRUE, NULL)
    \/ \E q \in Statements : GetDataframe(q, FALSE, FALSE, NULL, FALSE)
    \/ \E l \in LogLists : LogTableUsage(l, NULL)
    \/ \E wipe \in BOOLEAN, files \in InitDirectories : BaseInit(wipe, files)

SpecInit == Init /\ [][NextInit]_vars

\* the table names of the definition files
DefinedNames(files) == {files[i].table_name : i \in DOMAIN files}

\* C28: after init(wipe=True) the catalog holds the reseeded sample tables
\* and the definitions of the definition files and nothing else, each with
\* hits = 0; after init(wipe=False) every row of before is still there with
\* its hits unchanged
C28_WipeReseeds ==
    [][last'.op = "base_init"
        => /\ last'.arg.wipe
              => \A r \in catalog' :
                    /\ r.table_name \in {"iris", "economics"} \cup DefinedNames(last'.arg.files)
                    /\ r.hits = 0
           /\ ~last'.arg.wipe
              => \A r \in catalog :
                    /\ HasRow(catalog', r.table_name)
                    /\ HitsOf(catalog', r.table_name) = r.hits
      ]_vars

\* init(wipe=False) on a store whose iris row had been hit
C28_Witness ==
    /\ last.op = "base_init"
    /\ ~last.arg.wipe
    /\ last.arg.files = <<DefT2, DefT3>>
    /\ HitsOf(catalog, "iris") = 1
    /\ NamesOf(catalog) = {"iris", "economics", "t2", "t3"}

\* init(wipe=True) has reseeded the sample tables and one definition
C28_WitnessWipe ==
    /\ last.op = "base_init"
    /\ last.arg.wipe
    /\ last.arg.files = <<DefT2>>
    /\ NamesOf(catalog) = {"iris", "economics", "t2"}
    /\ now = MaxNow

\* the columns a logging call may write
LoggedColumns(op) ==
    IF op = "log_table_usage" THEN {"hits", "last_hit"} ELSE {"updates", "updated"}

\* C29: log_table_usage changes hits and last_hit, and log_table_update
\* changes updates and updated, of the rows named in the argument and
\* nothing else of the catalog: the other columns of those rows and every
\* column of every other row are as before, and the catalog has the rows it
\* had
C29_LoggingFrame ==
    [][last'.op \in {"log_table_usage", "log_table_update"}
        => \A n \in Names :
            /\ HasRow(catalog', n) <=> HasRow(catalog, n)
            /\ HasRow(catalog, n)
                => \A c \in Columns :
                    (n \notin last'.arg.tables \/ c \notin LoggedColumns(last'.op))
                        => RowOf(catalog', n)[c] = RowOf(catalog, n)[c]
      ]_vars

\* the same of the rows the catalog had before the call only
C29_ExistingRowsFrame ==
    [][last'.op \in {"log_table_usage", "log_table_update"}
        => \A n \in NamesOf(catalog) :
            /\ HasRow(catalog', n)
            /\ \A c \in Columns :
                (n \notin last'.arg.tables \/ c \notin LoggedColumns(last'.op))
                    => RowOf(catalog', n)[c] = RowOf(catalog, n)[c]
      ]_vars

\* C30: a logged local query that references a known table and then fails
\* in execution has incremented the hits of each referenced table by 1, and
\* the error of the execution reaches the caller
C30_HitLoggedBeforeExecution ==
    [][(/\ last'.op = "get_dataframe"
        /\ ~last'.arg.skip_logging
        /\ last'.arg.referenced_tables # {}
        /\ last'.arg.fault = NULL
        /\ last'.arg.query_raises)
        => /\ \A n \in last'.arg.referenced_tables :
                HitsOf(catalog', n) = HitsOf(catalog, n) + 1
           /\ last'.exc = "DatabaseError"
           /\ last'.ret = NULL
      ]_vars

\* a query on iris failed in execution and its hit is in the catalog
C30_Witness ==
    /\ last.op = "get_dataframe"
    /\ ~last.arg.skip_logging
    /\ last.arg.query_raises
    /\ last.arg.fault = NULL
    /\ "iris" \in last.arg.referenced_tables
    /\ last.exc = "DatabaseError"
    /\ HitsOf(catalog, "iris") = 1

====
